---- MODULE Spec2Model ----
(***************************************************************************)
(* Model of winrawin: the device catalog (_api.py list_devices/get_device, *)
(* _win_raw_input.py is_connected), the message interception layer         *)
(* (set_window_procedure, invisible_window, enable_raw_input_for_window)   *)
(* and the raw notification decoder (hook_raw_input_for_window's           *)
(* process_message).  The operating system is the environment: it owns the *)
(* connected devices, the windows and the outcome of every platform call.  *)
(***************************************************************************)
EXTENDS Integers, Sequences, FiniteSets, TLC

\* ------------------------------------------------------------------ bounds
MaxHandles == 2      \* device handles 1..MaxHandles the OS hands out
MaxWindows == 1      \* windows owned by the host toolkit
MaxInstalls == 2     \* calls of hook_raw_input_for_window in one run

\* ------------------------------------------------------- program constants
WM_INPUT == 255
WM_KEYDOWN == 256
WM_KEYUP == 257
WM_SYSKEYDOWN == 260
WM_SYSKEYUP == 261
RIDEV_INPUTSINK == 256
\* the one last-error value is_connected turns into False
INVALID_HANDLE_CODE == 6
\* platform error codes the environment may report besides it:
\* 5 access denied, 1168 element not found
PlatformErrors == {5, INVALID_HANDLE_CODE, 1168}

Handles == 1..MaxHandles
NULL == 0            \* a NULL HANDLE / HWND; ctypes hands it to Python as None
Hwnds == 1..MaxWindows
HelperHwnd == MaxWindows + 1   \* the window CreateWindowExW makes

\* ------------------------------------------------------------- the hardware
\* What the OS knows of a device: its class (RAWINPUTDEVICELIST.dwType), its
\* path (RIDI_DEVICENAME) and the six DWORDs of the RID_DEVICE_INFO union
\* (RIDI_DEVICEINFO).  Class 3 stands for a device class this library does not
\* know.
Hardware ==
    << [dwType |-> 0, usage |-> <<1, 2>>, path |-> "\\\\?\\HID#mouse",
        u |-> <<128, 3, 0, 0, 0, 0>>],
       [dwType |-> 1, usage |-> <<1, 6>>, path |-> "\\\\?\\HID#kbd",
        u |-> <<4, 0, 1, 12, 3, 101>>],
       [dwType |-> 2, usage |-> <<1, 5>>, path |-> "\\\\?\\HID#pad",
        u |-> <<1118, 654, 1, 327681, 0, 0>>],
       [dwType |-> 3, usage |-> <<1, 4>>, path |-> "\\\\?\\HID#other",
        u |-> <<0, 0, 0, 0, 0, 0>>] >>

Unplugged == 0

VARIABLES
    devices,          \* OS: handle -> index into Hardware, or Unplugged
    CACHED_DEVICES,   \* _api.CACHED_DEVICES: handle -> RawInputDevice
    wndproc,          \* OS: window -> the procedures installed on it, oldest first
    helper,           \* OS: "none", "class" (window class registered) or "window"
    registered,       \* OS: (usage page, usage) -> its raw-input registration
    refs,             \* len(_REGISTERED_PROCEDURES_REFS)
    installs,         \* calls of hook_raw_input_for_window made so far
    last              \* what the last call did and returned

osvars == <<wndproc, helper, registered, refs>>
vars == <<devices, CACHED_DEVICES, wndproc, helper, registered, refs, installs, last>>

Range(f) == {f[x] : x \in DOMAIN f}
EmptyCache == [h \in {} |-> NULL]

\* a dict written as rows <<key, value>>
Dict(rows) ==
    [k \in {rows[i][1] : i \in DOMAIN rows} |->
        rows[CHOOSE i \in DOMAIN rows : rows[i][1] = k][2]]

\* ------------------------------------------------------ results of a call
\* A call either returns a value or raises; winerror is the platform error
\* code an OSError carries, queries the number of platform lookups it made.
Return(v) ==
    [status |-> "return", error |-> "", winerror |-> 0, value |-> v, queries |-> 0]
Raise(e, code) ==
    [status |-> "raise", error |-> e, winerror |-> code, value |-> <<>>, queries |-> 0]
Queried(r) == [r EXCEPT !.queries = 1]

\* The environment's part in one call: the platform calls that fail in it and
\* the last-error code they leave.
NoFailure == [fails |-> {}, err |-> INVALID_HANDLE_CODE, at |-> 0]
Present(os, h) == h \in DOMAIN os /\ os[h] # Unplugged

\* ---------------------------------------------------- platform lookups
NoneName == "<None>"
ZeroInfo == <<0, 0, 0, 0, 0, 0>>

\* _win_raw_input.get_device_path: None for a None handle, else the two
\* GetRawInputDeviceInfoW(RIDI_DEVICENAME) calls, an OSError when they fail.
get_device_path(os, env, device) ==
    IF device = NULL THEN Return(NoneName)
    ELSE IF ~Present(os, device) \/ "name" \in env.fails
         THEN Queried(Raise("OSError", env.err))
         ELSE Queried(Return(Hardware[os[device]].path))

\* _api.get_device line 132 calls get_device_name.  Neither _api.py nor the
\* names it imports with `from ._win_raw_input import *` define it, so the
\* call raises NameError before any platform lookup is made.
get_device_name(os, env, device) == Raise("NameError", 0)

\* _win_raw_input.get_device_info: a zeroed RID_DEVICE_INFO for None, else
\* the union's six DWORDs, an OSError when the lookup fails.
get_device_info(os, env, device) ==
    IF device = NULL THEN Return(ZeroInfo)
    ELSE IF ~Present(os, device) \/ "info" \in env.fails
         THEN Queried(Raise("OSError", env.err))
         ELSE Queried(Return(Hardware[os[device]].u))

\* is_connected as it would be if the code compared GetLastError() with 1168
is_connected_NotFound(os, env, device) ==
    IF Present(os, device) /\ "name" \notin env.fails THEN Queried(Return(TRUE))
    ELSE IF env.err = 1168 THEN Queried(Return(FALSE))
    ELSE Queried(Raise("OSError", env.err))

\* _win_raw_input.is_connected: True when the size query returns 0, False
\* when GetLastError() is 6, any other code raised as OSError.
is_connected(os, env, device) ==
    IF Present(os, device) /\ "name" \notin env.fails THEN Queried(Return(TRUE))
    ELSE IF env.err = INVALID_HANDLE_CODE THEN Queried(Return(FALSE))
    ELSE Queried(Raise("OSError", env.err))

\* ---------------------------------------------------- metadata tables
MOUSE_TYPES_get(k) ==
    CASE k = 128 -> "HID mouse"
      [] k = 256 -> "HID wheel mouse"
      [] k = 32768 -> "Mouse with horizontal wheel"
      [] OTHER -> "unknown"

KEYBOARD_TYPES_get(k) ==
    CASE k = 4 -> "Enhanced 101- or 102-key keyboards (and compatibles)"
      [] k = 7 -> "Japanese Keyboard"
      [] k = 8 -> "Korean Keyboard"
      [] k = 81 -> "Unknown type or HID keyboard"
      [] OTHER -> "unknown"

GENERIC_DESKTOP_CONTROLS_PAGE_get(k) ==
    CASE k = 1 -> "Pointer"
      [] k = 2 -> "Mouse"
      [] k = 4 -> "Joystick"
      [] k = 5 -> "Game Pad"
      [] k = 6 -> "Keyboard"
      [] k = 7 -> "Keypad"
      [] k = 8 -> "Multi-axis Controller"
      [] OTHER -> "unknown"

\* USAGE_PAGE_NAMES.get(page, ('unknown', {})): the page's name, and whether
\* its usage table is GENERIC_DESKTOP_CONTROLS_PAGE (the others are empty).
USAGE_PAGE_NAMES_get(page) ==
    CASE page = 1 -> <<"Generic Desktop Controls", TRUE>>
      [] page = 5 -> <<"Game Controls", FALSE>>
      [] page = 8 -> <<"LEDs", FALSE>>
      [] page = 9 -> <<"Button", FALSE>>
      [] OTHER -> <<"unknown", FALSE>>

\* ------------------------------------------------------ the device variants
\* A RawInputDevice: its variant, handle, name and the variant's own fields
\* in declaration order.  An Optional field is <<>> (None) or <<value>>.
Mouse(handle, name, u) ==
    [variant |-> "Mouse", handle |-> handle, name |-> name,
     meta |-> << MOUSE_TYPES_get(u[1]), u[2],
                 IF u[3] = 0 THEN <<>> ELSE <<u[3]>>, u[4] # 0 >>]

Keyboard(handle, name, u) ==
    [variant |-> "Keyboard", handle |-> handle, name |-> name,
     meta |-> << KEYBOARD_TYPES_get(u[1]), u[2], u[3], u[4], u[5], u[6] >>]

\* usUsagePage and usUsage are the two 16-bit halves of the union's 4th DWORD
HID(handle, name, u) ==
    LET usage_page == u[4] % 65536
        usage == u[4] \div 65536
        page == USAGE_PAGE_NAMES_get(usage_page)
    IN  [variant |-> "HID", handle |-> handle, name |-> name,
         meta |-> << u[1], u[2], u[3], usage_page, page[1], usage,
                     IF page[2] THEN GENERIC_DESKTOP_CONTROLS_PAGE_get(usage)
                     ELSE "unknown" >>]

NoDevice == [variant |-> "none", handle |-> NULL, name |-> NoneName, meta |-> <<>>]

\* -------------------------------------------------------------- get_device
\* what a get_device call leaves: its result, the cache, the lookups made
Looked(res, cache, nameQ, infoQ) ==
    [res |-> res, cache |-> cache, nameQ |-> nameQ, infoQ |-> infoQ]

\* lines 134-160 of get_device, once both lookups returned: build the
\* variant dw_type names and cache it, NotImplementedError for another type
BuildDevice(cache, dw_type, handle, name, info) ==
    IF dw_type \notin {0, 1, 2}
    THEN Looked(Raise("NotImplementedError", 0), cache, name.queries, info.queries)
    ELSE Looked(Return(CASE dw_type = 0 -> Mouse(handle, name.value, info.value)
                         [] dw_type = 1 -> Keyboard(handle, name.value, info.value)
                         [] dw_type = 2 -> HID(handle, name.value, info.value)),
                [h \in DOMAIN cache \cup {handle} |->
                   IF h # handle THEN cache[h]
                   ELSE CASE dw_type = 0 -> Mouse(handle, name.value, info.value)
                          [] dw_type = 1 -> Keyboard(handle, name.value, info.value)
                          [] dw_type = 2 -> HID(handle, name.value, info.value)],
                name.queries, info.queries)

\* line 133 of get_device: the info lookup, made when the name lookup returned
LookUpInfo(cache, dw_type, handle, name, info) ==
    IF info.status = "raise" THEN Looked(info, cache, name.queries, info.queries)
    ELSE BuildDevice(cache, dw_type, handle, name, info)

\* line 132 of get_device: the name lookup, made for a handle not in the cache
LookUpName(cache, os, env, dw_type, handle, name) ==
    IF name.status = "raise" THEN Looked(name, cache, name.queries, 0)
    ELSE LookUpInfo(cache, dw_type, handle, name, get_device_info(os, env, handle))

\* _api.get_device: the cached entry of a known handle, else the two
\* lookups and the new entry
get_device(cache, os, env, dw_type, handle) ==
    IF handle \in DOMAIN cache THEN Looked(Return(cache[handle]), cache, 0, 0)
    ELSE LookUpName(cache, os, env, dw_type, handle,
                    get_device_name(os, env, handle))

\* ------------------------------------------------------------ list_devices
\* _win_raw_input.get_raw_input_device_list.  GetRawInputDeviceList has
\* restype c_uint, so its failure value (UINT)-1 never compares equal to -1
\* and neither `raise` is reached: when the count query fails the count stays
\* 0 and the array is empty, when the fetch fails the array keeps its zeroed
\* entries (hDevice None, dwType 0).
get_raw_input_device_list(os, env, order) ==
    IF "enumCount" \in env.fails THEN <<>>
    ELSE IF "enumFetch" \in env.fails
    THEN [i \in 1..Len(order) |-> [hDevice |-> NULL, dwType |-> 0]]
    ELSE [i \in 1..Len(order) |->
            [hDevice |-> order[i], dwType |-> Hardware[os[order[i]]].dwType]]

\* the list comprehension of list_devices: get_device on each entry in turn,
\* stopping at the first one that raises
RECURSIVE CollectDevices(_, _, _, _, _)
Collected(arr, i, os, env, acc, g) ==
    IF g.res.status = "raise"
    THEN Looked(g.res, g.cache, acc.nameQ + g.nameQ, acc.infoQ + g.infoQ)
    ELSE CollectDevices(arr, i + 1, os, env,
           Looked(Return(Append(acc.res.value, g.res.value)), g.cache,
                  acc.nameQ + g.nameQ, acc.infoQ + g.infoQ))

CollectDevices(arr, i, os, env, acc) ==
    IF i > Len(arr) THEN acc
    ELSE Collected(arr, i, os, env, acc,
                   get_device(acc.cache, os, env, arr[i].dwType, arr[i].hDevice))

\* {d.handle: d for d in devices}: a later entry replaces an earlier one
DictByHandle(ds) ==
    [h \in {ds[i].handle : i \in DOMAIN ds} |->
        ds[CHOOSE i \in DOMAIN ds :
              /\ ds[i].handle = h
              /\ \A j \in DOMAIN ds : ds[j].handle = h => j <= i]]

\* lines 124-126 of list_devices: clear the cache and refill it from the
\* devices collected; nothing of it runs when a get_device raised
Recache(got) ==
    IF got.res.status = "raise" THEN got
    ELSE Looked(got.res, DictByHandle(got.res.value), got.nameQ, got.infoQ)

\* _api.list_devices: the devices it returns (or the error of the first
\* get_device that raised) and the cache it leaves
list_devices(cache, os, env, order) ==
    Recache(CollectDevices(get_raw_input_device_list(os, env, order), 1, os, env,
                           Looked(Return(<<>>), cache, 0, 0)))

\* ------------------------------------------------ message interception
AllHwnds == Hwnds \cup {HelperHwnd}

\* str.lower() on the device type names the model uses
Lower(s) ==
    CASE s = "Keyboard" -> "keyboard"
      [] s = "Mouse" -> "mouse"
      [] OTHER -> s

\* USAGE_NAME_TO_VALUE: the lower-cased names of GENERIC_DESKTOP_CONTROLS_PAGE,
\* each mapped to (1, usage)
USAGE_NAME_TO_VALUE ==
    Dict(<< <<"pointer", <<1, 1>>>>, <<"mouse", <<1, 2>>>>, <<"joystick", <<1, 4>>>>,
            <<"game pad", <<1, 5>>>>, <<"keyboard", <<1, 6>>>>, <<"keypad", <<1, 7>>>>,
            <<"multi-axis controller", <<1, 8>>>> >>)

Step(s, id, e) == [step |-> s, id |-> id, error |-> e]

\* RegisterRawInputDevices: the usage's registration is replaced
Register(reg, usage, flags, target) ==
    [x \in DOMAIN reg \cup {usage} |->
        IF x = usage THEN [flags |-> flags, target |-> target] ELSE reg[x]]

\* _win_raw_input.enable_raw_input_for_window: KeyError for a name that
\* USAGE_NAME_TO_VALUE lacks, OSError when RegisterRawInputDevices fails, else
\* the usage is registered with RIDEV_INPUTSINK and hwnd as its target.
enable_raw_input_for_window(win, env, hwnd, device_type) ==
    IF Lower(device_type) \notin DOMAIN USAGE_NAME_TO_VALUE
    THEN [res |-> Raise("KeyError", 0), win |-> win]
    ELSE IF "register" \in env.fails
            /\ env.at = USAGE_NAME_TO_VALUE[Lower(device_type)][2]
    THEN [res |-> Raise("OSError", env.err), win |-> win]
    ELSE [res |-> Return(USAGE_NAME_TO_VALUE[Lower(device_type)]),
          win |-> [win EXCEPT !.registered =
                     Register(@, USAGE_NAME_TO_VALUE[Lower(device_type)],
                              RIDEV_INPUTSINK, hwnd)]]

\* _win_raw_input.set_window_procedure: the new procedure is appended to
\* _REGISTERED_PROCEDURES_REFS, then SetWindowLongPtrA replaces the window's
\* entry point; a 0 result raises OSError.
set_window_procedure(win, env, hwnd, id, call_original) ==
    IF "setwndproc" \in env.fails
    THEN [res |-> Raise("OSError", env.err), win |-> [win EXCEPT !.refs = @ + 1]]
    ELSE [res |-> Return(hwnd),
          win |-> [win EXCEPT !.refs = @ + 1,
                     !.wndproc[hwnd] =
                        Append(@, [hook |-> id, call_original |-> call_original])]]

\* RegisterClassExW refuses a class name that is registered already; the
\* last-error code it leaves then
ERROR_CLASS_ALREADY_EXISTS == 1410

\* _win_raw_input.invisible_window: registers the window class 'Python Win32
\* Class' (OSError on failure), creates the window (RuntimeError naming the
\* error code on failure), keeps a reference and returns the new handle.
invisible_window(win, env, id) ==
    IF win.helper # "none"
    THEN [res |-> Raise("OSError", ERROR_CLASS_ALREADY_EXISTS), win |-> win]
    ELSE IF "registerclass" \in env.fails
    THEN [res |-> Raise("OSError", env.err), win |-> win]
    ELSE IF "createwindow" \in env.fails
    THEN [res |-> Raise("RuntimeError", env.err),
          win |-> [win EXCEPT !.helper = "class"]]
    ELSE [res |-> Return(HelperHwnd),
          win |-> [win EXCEPT !.helper = "window", !.refs = @ + 1,
                     !.wndproc[HelperHwnd] =
                        <<[hook |-> id, call_original |-> FALSE]>>]]

\* the loop `for device_type in device_types` of hook_raw_input_for_window
RECURSIVE RegisterAll(_, _, _, _, _)
\* the loop as it would be if a failed registration were skipped
Enabled_Skipping(acc, env, hwnd, device_types, i, e) ==
    RegisterAll([res |-> acc.res, win |-> e.win, target |-> acc.target,
                 trace |-> Append(acc.trace, Step("register", i, ""))],
                env, hwnd, device_types, i + 1)

Enabled(acc, env, hwnd, device_types, i, e) ==
    IF e.res.status = "raise"
    THEN [res |-> e.res, win |-> e.win, target |-> acc.target,
          trace |-> Append(acc.trace, Step("register failed", i, e.res.error))]
    ELSE RegisterAll([res |-> acc.res, win |-> e.win, target |-> acc.target,
                      trace |-> Append(acc.trace, Step("register", i, ""))],
                     env, hwnd, device_types, i + 1)

RegisterAll(acc, env, hwnd, device_types, i) ==
    IF i > Len(device_types) THEN acc
    ELSE Enabled(acc, env, hwnd, device_types, i,
                 enable_raw_input_for_window(acc.win, env, hwnd, device_types[i]))

\* lines 257-258, once the procedure is installed on window inst.res.value
Installed(inst, env, id, device_types) ==
    IF inst.res.status = "raise"
    THEN [res |-> inst.res, win |-> inst.win, target |-> NULL,
          trace |-> <<Step("install failed", id, inst.res.error)>>]
    ELSE RegisterAll([res |-> Return(<<>>), win |-> inst.win,
                      target |-> inst.res.value,
                      trace |-> <<Step("install", id, "")>>],
                     env, inst.res.value, device_types, 1)

\* _api.hook_raw_input_for_window (lines 253-258): install process_message on
\* the given window, or on a new invisible window when hwnd is falsy, then
\* register every device type in turn.
hook_raw_input_for_window(win, env, hwnd, id, device_types) ==
    Installed(IF hwnd # NULL THEN set_window_procedure(win, env, hwnd, id, TRUE)
              ELSE invisible_window(win, env, id),
              env, id, device_types)

\* ------------------------------------------------------ decoder tables
\* RAWMOUSE.ulButtons is a 32-bit union of usButtonFlags (low half) and
\* usButtonData (high half); a value is written <<high, low>>, so that
\* 7865344 is <<120, 1024>> and 4287104000 is <<65416, 1024>>.
Buttons(n) == <<n \div 65536, n % 65536>>
MOUSE_BUTTONS ==
    Dict(<< <<Buttons(1), <<"down", 1, "left">>>>, <<Buttons(2), <<"up", 1, "left">>>>,
            <<Buttons(4), <<"down", 3, "right">>>>, <<Buttons(8), <<"up", 3, "right">>>>,
            <<Buttons(16), <<"down", 2, "middle">>>>,
            <<Buttons(32), <<"up", 2, "middle">>>>,
            <<Buttons(64), <<"down", 4, "thumb1">>>>,
            <<Buttons(128), <<"up", 4, "thumb1">>>>,
            <<Buttons(256), <<"down", 5, "thumb2">>>>,
            <<Buttons(512), <<"up", 5, "thumb2">>>>,
            <<Buttons(7865344), <<"wheel-up", 2, "wheel">>>>,
            <<<<65416, 1024>>, <<"wheel-down", 2, "wheel">>>> >>)

KEY_EVENT_TYPE ==
    Dict(<< <<WM_KEYDOWN, "down">>, <<WM_KEYUP, "up">>, <<WM_SYSKEYDOWN, "down">> >>)

\* virtual-key code -> (name, is_keypad); of the source's repeated keys the
\* last one stands, as in a Python dict display
VIRTUAL_KEYBOARD ==
    Dict(<< <<3, <<"control-break processing", FALSE>>>>,
            <<8, <<"backspace", FALSE>>>>, <<9, <<"tab", FALSE>>>>,
            <<12, <<"clear", FALSE>>>>, <<13, <<"enter", FALSE>>>>,
            <<16, <<"shift", FALSE>>>>, <<17, <<"ctrl", FALSE>>>>,
            <<18, <<"alt", FALSE>>>>, <<19, <<"pause", FALSE>>>>,
            <<20, <<"caps lock", FALSE>>>>, <<21, <<"ime hangul mode", FALSE>>>>,
            <<23, <<"ime junja mode", FALSE>>>>, <<24, <<"ime final mode", FALSE>>>>,
            <<25, <<"ime kanji mode", FALSE>>>>, <<27, <<"esc", FALSE>>>>,
            <<28, <<"ime convert", FALSE>>>>, <<29, <<"ime nonconvert", FALSE>>>>,
            <<30, <<"ime accept", FALSE>>>>,
            <<31, <<"ime mode change request", FALSE>>>>,
            <<32, <<"spacebar", FALSE>>>>, <<33, <<"page up", FALSE>>>>,
            <<34, <<"page down", FALSE>>>>, <<35, <<"end", FALSE>>>>,
            <<36, <<"home", FALSE>>>>, <<37, <<"left", FALSE>>>>,
            <<38, <<"up", FALSE>>>>, <<39, <<"right", FALSE>>>>,
            <<40, <<"down", FALSE>>>>, <<41, <<"select", FALSE>>>>,
            <<42, <<"print", FALSE>>>>, <<43, <<"execute", FALSE>>>>,
            <<44, <<"print screen", FALSE>>>>, <<45, <<"insert", FALSE>>>>,
            <<46, <<"delete", FALSE>>>>, <<47, <<"help", FALSE>>>>,
            <<48, <<"0", FALSE>>>>, <<49, <<"1", FALSE>>>>, <<50, <<"2", FALSE>>>>,
            <<51, <<"3", FALSE>>>>, <<52, <<"4", FALSE>>>>, <<53, <<"5", FALSE>>>>,
            <<54, <<"6", FALSE>>>>, <<55, <<"7", FALSE>>>>, <<56, <<"8", FALSE>>>>,
            <<57, <<"9", FALSE>>>>, <<65, <<"a", FALSE>>>>, <<66, <<"b", FALSE>>>>,
            <<67, <<"c", FALSE>>>>, <<68, <<"d", FALSE>>>>, <<69, <<"e", FALSE>>>>,
            <<70, <<"f", FALSE>>>>, <<71, <<"g", FALSE>>>>, <<72, <<"h", FALSE>>>>,
            <<73, <<"i", FALSE>>>>, <<74, <<"j", FALSE>>>>, <<75, <<"k", FALSE>>>>,
            <<76, <<"l", FALSE>>>>, <<77, <<"m", FALSE>>>>, <<78, <<"n", FALSE>>>>,
            <<79, <<"o", FALSE>>>>, <<80, <<"p", FALSE>>>>, <<81, <<"q", FALSE>>>>,
            <<82, <<"r", FALSE>>>>, <<83, <<"s", FALSE>>>>, <<84, <<"t", FALSE>>>>,
            <<85, <<"u", FALSE>>>>, <<86, <<"v", FALSE>>>>, <<87, <<"w", FALSE>>>>,
            <<88, <<"x", FALSE>>>>, <<89, <<"y", FALSE>>>>, <<90, <<"z", FALSE>>>>,
            <<91, <<"left windows", FALSE>>>>, <<92, <<"right windows", FALSE>>>>,
            <<93, <<"applications", FALSE>>>>, <<95, <<"sleep", FALSE>>>>,
            <<96, <<"0", TRUE>>>>, <<97, <<"1", TRUE>>>>, <<98, <<"2", TRUE>>>>,
            <<99, <<"3", TRUE>>>>, <<100, <<"4", TRUE>>>>, <<101, <<"5", TRUE>>>>,
            <<102, <<"6", TRUE>>>>, <<103, <<"7", TRUE>>>>, <<104, <<"8", TRUE>>>>,
            <<105, <<"9", TRUE>>>>, <<106, <<"*", TRUE>>>>, <<107, <<"+", TRUE>>>>,
            <<108, <<"separator", TRUE>>>>, <<109, <<"-", TRUE>>>>,
            <<110, <<"decimal", TRUE>>>>, <<111, <<"/", TRUE>>>>,
            <<112, <<"f1", FALSE>>>>, <<113, <<"f2", FALSE>>>>,
            <<114, <<"f3", FALSE>>>>, <<115, <<"f4", FALSE>>>>,
            <<116, <<"f5", FALSE>>>>, <<117, <<"f6", FALSE>>>>,
            <<118, <<"f7", FALSE>>>>, <<119, <<"f8", FALSE>>>>,
            <<120, <<"f9", FALSE>>>>, <<121, <<"f10", FALSE>>>>,
            <<122, <<"f11", FALSE>>>>, <<123, <<"f12", FALSE>>>>,
            <<124, <<"f13", FALSE>>>>, <<125, <<"f14", FALSE>>>>,
            <<126, <<"f15", FALSE>>>>, <<127, <<"f16", FALSE>>>>,
            <<128, <<"f17", FALSE>>>>, <<129, <<"f18", FALSE>>>>,
            <<130, <<"f19", FALSE>>>>, <<131, <<"f20", FALSE>>>>,
            <<132, <<"f21", FALSE>>>>, <<133, <<"f22", FALSE>>>>,
            <<134, <<"f23", FALSE>>>>, <<135, <<"f24", FALSE>>>>,
            <<144, <<"num lock", TRUE>>>>, <<145, <<"scroll lock", FALSE>>>>,
            <<160, <<"left shift", FALSE>>>>, <<161, <<"right shift", FALSE>>>>,
            <<162, <<"left ctrl", FALSE>>>>, <<163, <<"right ctrl", FALSE>>>>,
            <<164, <<"left menu", FALSE>>>>, <<165, <<"right menu", FALSE>>>>,
            <<166, <<"browser back", FALSE>>>>, <<167, <<"browser forward", FALSE>>>>,
            <<168, <<"browser refresh", FALSE>>>>, <<169, <<"browser stop", FALSE>>>>,
            <<170, <<"browser search key ", FALSE>>>>,
            <<171, <<"browser favorites", FALSE>>>>,
            <<172, <<"browser start and home", FALSE>>>>,
            <<173, <<"volume mute", FALSE>>>>, <<174, <<"volume down", FALSE>>>>,
            <<175, <<"volume up", FALSE>>>>, <<176, <<"next track", FALSE>>>>,
            <<177, <<"previous track", FALSE>>>>, <<178, <<"stop media", FALSE>>>>,
            <<179, <<"play/pause media", FALSE>>>>, <<180, <<"start mail", FALSE>>>>,
            <<181, <<"select media", FALSE>>>>,
            <<182, <<"start application 1", FALSE>>>>,
            <<183, <<"start application 2", FALSE>>>>, <<187, <<"+", FALSE>>>>,
            <<188, <<",", FALSE>>>>, <<189, <<"-", FALSE>>>>, <<190, <<".", FALSE>>>>,
            <<229, <<"ime process", FALSE>>>>, <<246, <<"attn", FALSE>>>>,
            <<247, <<"crsel", FALSE>>>>, <<248, <<"exsel", FALSE>>>>,
            <<249, <<"erase eof", FALSE>>>>, <<250, <<"play", FALSE>>>>,
            <<251, <<"zoom", FALSE>>>>, <<252, <<"reserved ", FALSE>>>>,
            <<253, <<"pa1", FALSE>>>>, <<254, <<"clear", FALSE>>>> >>)

\* KEY_NAMES_LOWER, which _create_key_name_tables builds from the keyboard
\* layout the OS reports: one entry for each scan code 0..127 and for 541.
\* The names below are those of a US layout for the scan codes the model sends.
KeyNameScanCodes == (0..127) \cup {541}
KEY_NAMES_LOWER ==
    [sc \in KeyNameScanCodes |->
        CASE sc = 541 -> "alt gr"
          [] sc = 30 -> "a"
          [] sc = 56 -> "alt"
          [] sc = 86 -> "\\"
          [] OTHER -> "unknown"]

\* sizes GetRawInputData reports on 64-bit Windows
KEYBOARD_PAYLOAD_SIZE == 40
MOUSE_PAYLOAD_SIZE == 48
RAWINPUTHEADER_SIZE == 24

\* a RawInputEvent; an Optional field is <<>> (None) or <<value>>.  The
\* perf_counter stamp is left out.
RawInputEvent(event_type, code, name, device_type, device, dx, dy, hwnd, data) ==
    [event_type |-> event_type, code |-> code, name |-> name,
     device_type |-> device_type, device |-> device, delta_x |-> dx,
     delta_y |-> dy, hwnd |-> hwnd, data |-> data]

SubSeqSafe(q, n) == [i \in 1..n |-> IF i <= Len(q) THEN q[i] ELSE 0]

\* lines 222-250 of process_message: the branch on raw.header.dwType, once
\* the payload is fetched and the device resolved.  The assert statements of
\* lines 223 and 235 are executed when asserts holds: python -O compiles
\* them away.
DecodeEvent(raw, dwSize, device, hwnd, asserts) ==
    IF raw.dwType = 1 THEN
        IF asserts /\ dwSize # KEYBOARD_PAYLOAD_SIZE THEN Raise("AssertionError", 0)
        ELSE IF raw.data.vk_code \notin DOMAIN VIRTUAL_KEYBOARD
                /\ raw.data.scan_code \notin DOMAIN KEY_NAMES_LOWER
        THEN Raise("KeyError", 0)
        ELSE IF raw.data.message \notin DOMAIN KEY_EVENT_TYPE THEN Raise("KeyError", 0)
        ELSE LET known == raw.data.vk_code \in DOMAIN VIRTUAL_KEYBOARD
                 key_name == IF known THEN VIRTUAL_KEYBOARD[raw.data.vk_code][1]
                             ELSE KEY_NAMES_LOWER[raw.data.scan_code]
                 is_keypad == known /\ VIRTUAL_KEYBOARD[raw.data.vk_code][2]
             IN  Return(RawInputEvent(KEY_EVENT_TYPE[raw.data.message],
                        raw.data.scan_code, <<key_name>>,
                        IF is_keypad THEN "keypad" ELSE "keyboard",
                        device, <<>>, <<>>, hwnd, <<>>))
    ELSE IF raw.dwType = 0 THEN
        IF asserts /\ dwSize # MOUSE_PAYLOAD_SIZE THEN Raise("AssertionError", 0)
        ELSE IF raw.data.ulButtons = Buttons(0)
        THEN Return(RawInputEvent("move", -1, <<>>, "mouse", device,
                      <<raw.data.lLastX>>, <<raw.data.lLastY>>, hwnd, <<>>))
        ELSE IF raw.data.ulButtons \notin DOMAIN MOUSE_BUTTONS
        THEN Raise("KeyError", 0)
        ELSE LET b == MOUSE_BUTTONS[raw.data.ulButtons] IN
             Return(RawInputEvent(b[1], b[2], <<b[3]>>, "mouse", device,
                      <<>>, <<>>, hwnd, <<>>))
    ELSE IF raw.dwType = 2 THEN
        Return(RawInputEvent("data", -1,
                 <<ToString(raw.data.dwCount) \o " x "
                     \o ToString(raw.data.dwSizeHid) \o " bytes">>,
                 "hid", device, <<>>, <<>>, hwnd,
                 <<SubSeqSafe(raw.data.bRawData,
                              raw.data.dwSizeHid * raw.data.dwCount)>>))
    ELSE Raise("NotImplementedError", 0)

\* what one run of process_message leaves
Processed(res, g, trace, events) ==
    [res |-> res, cache |-> g.cache, nameQ |-> g.nameQ, infoQ |-> g.infoQ,
     trace |-> trace, events |-> events]

Fetched(id) == <<Step("size query", id, ""), Step("fetch", id, "")>>

\* line 251: callback(event), which may itself raise; done is the steps
\* made before get_device
Deliver(g, d, env, id, done) ==
    IF d.status = "raise"
    THEN Processed(d, g,
           done \o <<Step("get_device", id, ""), Step("decode", id, d.error)>>,
           <<>>)
    ELSE Processed(IF "callback" \in env.fails
                   THEN Raise("CallbackError", 0) ELSE Return(<<>>),
                   g,
                   done \o
                     <<Step("get_device", id, ""), Step("decode", id, ""),
                       Step("callback", id,
                            IF "callback" \in env.fails THEN "CallbackError" ELSE "")>>,
                   <<d.value>>)

\* line 221 on: the device is resolved, then the payload decoded
Resolved(g, env, id, hwnd, raw, done) ==
    IF g.res.status = "raise"
    THEN Processed(g.res, g,
                   Append(done, Step("get_device", id, g.res.error)), <<>>)
    ELSE Deliver(g, DecodeEvent(raw, raw.dwSize, g.res.value, hwnd,
                                "optimized" \notin env.fails),
                 env, id, done)

\* sizeof(RAWINPUT): the buffer `raw = RAWINPUT()` of line 219
RAWINPUT_SIZE == 48
\* RAWINPUT() before GetRawInputData fills it: every field zero
ZeroRaw(dwSize) ==
    [dwType |-> 0, dwSize |-> dwSize, hDevice |-> NULL,
     data |-> [ulButtons |-> Buttons(0), lLastX |-> 0, lLastY |-> 0]]

\* process_message as it would be if line 220 fetched the payload without
\* comparing the size returned with dwSize
process_message_Unchecked(cache, os, env, id, hwnd, msg, raw) ==
    IF msg # WM_INPUT
    THEN Processed(Return(<<>>), Looked(Return(<<>>), cache, 0, 0), <<>>, <<>>)
    ELSE IF "rawsize" \in env.fails
    THEN Processed(Raise("OSError", env.err), Looked(Return(<<>>), cache, 0, 0),
                   <<Step("size query", id, "OSError")>>, <<>>)
    ELSE Resolved(get_device(cache, os, env, raw.dwType, raw.hDevice),
                  env, id, hwnd, raw, Fetched(id))

\* the closure process_message of hook_raw_input_for_window (lines 213-251),
\* run on one message by the hook numbered id: what it raises, the cache it
\* leaves, the platform lookups it made and its steps in order.
\* Under python -O ("optimized") the assert statement of line 220 is compiled
\* away and with it the GetRawInputData call inside it: raw stays zeroed.
\* A payload larger than RAWINPUT_SIZE makes GetRawInputData write past the
\* end of raw; what follows is undefined: the run goes on, or the process
\* dies there ("corrupt").
process_message(cache, os, env, id, hwnd, msg, raw) ==
    IF msg # WM_INPUT
    THEN Processed(Return(<<>>), Looked(Return(<<>>), cache, 0, 0), <<>>, <<>>)
    ELSE IF "rawsize" \in env.fails
    THEN Processed(Raise("OSError", env.err), Looked(Return(<<>>), cache, 0, 0),
                   <<Step("size query", id, "OSError")>>, <<>>)
    ELSE IF "optimized" \in env.fails
    THEN Resolved(get_device(cache, os, env, 0, NULL), env, id, hwnd,
                  ZeroRaw(raw.dwSize), <<Step("size query", id, "")>>)
    ELSE IF "corrupt" \in env.fails /\ raw.dwSize > RAWINPUT_SIZE
    THEN Processed(Raise("ProcessDied", 0), Looked(Return(<<>>), cache, 0, 0),
                   <<Step("size query", id, ""), Step("fetch", id, "ProcessDied")>>,
                   <<>>)
    ELSE IF "rawfetch" \in env.fails
    THEN Processed(Raise("AssertionError", 0), Looked(Return(<<>>), cache, 0, 0),
                   <<Step("size query", id, ""), Step("fetch", id, "AssertionError")>>,
                   <<>>)
    ELSE Resolved(get_device(cache, os, env, raw.dwType, raw.hDevice),
                  env, id, hwnd, raw, Fetched(id))

\* The window procedure the OS calls for a message: the k-th procedure
\* installed on the window (set_window_procedure.process_message lines
\* 722-727, invisible_window.actual_procedure lines 738-740) runs the hook and
\* then CallWindowProc on the one it replaced, or DefWindowProcA.  Below the
\* first one is the window's original procedure.  An exception leaving a
\* ctypes callback is reported and dropped by ctypes: the procedure ends
\* there and nothing after the raising call runs.
RECURSIVE WindowProcedure(_, _, _, _, _, _, _)
Hooked(chain, k, acc, os, env, hwnd, m, p) ==
    IF p.res.status = "raise"
    THEN [res |-> p.res, cache |-> p.cache,
          nameQ |-> acc.nameQ + p.nameQ, infoQ |-> acc.infoQ + p.infoQ,
          events |-> acc.events \o p.events,
          trace |-> Append(Append(acc.trace, Step("hook", chain[k].hook, ""))
                             \o p.trace,
                           Step("dropped", chain[k].hook, p.res.error))]
    ELSE IF chain[k].call_original
    THEN WindowProcedure(chain, k - 1,
           [res |-> acc.res, cache |-> p.cache,
            nameQ |-> acc.nameQ + p.nameQ, infoQ |-> acc.infoQ + p.infoQ,
            events |-> acc.events \o p.events,
            trace |-> Append(acc.trace, Step("hook", chain[k].hook, "")) \o p.trace],
           os, env, hwnd, m)
    ELSE [res |-> acc.res, cache |-> p.cache,
          nameQ |-> acc.nameQ + p.nameQ, infoQ |-> acc.infoQ + p.infoQ,
          events |-> acc.events \o p.events,
          trace |-> Append(Append(acc.trace, Step("hook", chain[k].hook, ""))
                             \o p.trace,
                           Step("default", 0, ""))]

WindowProcedure(chain, k, acc, os, env, hwnd, m) ==
    IF k = 0 THEN [acc EXCEPT !.trace = Append(@, Step("original", 0, ""))]
    ELSE Hooked(chain, k, acc, os, env, hwnd, m,
                process_message(acc.cache, os, env, chain[k].hook, hwnd, m.msg, m.raw))

\* ------------------------------------------------------ name normalization
\* A key name is the sequence of the code points of its characters:
\* 'esc' is <<101, 115, 99>>, the empty name is <<>>.
Unknown == <<117, 110, 107, 110, 111, 119, 110>>     \* 'unknown'
Underscore == <<95>>                                   \* '_'

\* str.lower() of one character, for the scripts the alias table uses:
\* ASCII, Latin-1, the ligature OE and Greek
LowerChar(c) ==
    IF c \in 65..90 THEN c + 32
    ELSE IF c \in (192..222) \ {215} THEN c + 32
    ELSE IF c = 338 THEN 339
    ELSE IF c \in (913..939) \ {930} THEN c + 32
    ELSE c
StrLower(name) == [i \in DOMAIN name |-> LowerChar(name[i])]

\* name.replace('_', ' ')
ReplaceUnderscores(name) == [i \in DOMAIN name |-> IF name[i] = 95 THEN 32 ELSE name[i]]

\* _win_raw_input.canonical_names, in source order
canonical_names ==
    Dict(<<
       <<<<101, 115, 99, 97, 112, 101>>, <<101, 115, 99>>>>,   \* 'escape': 'esc'
       <<<<114, 101, 116, 117, 114, 110>>, <<101, 110, 116, 101, 114>>>>,   \* 'return': 'enter'
       <<<<100, 101, 108>>, <<100, 101, 108, 101, 116, 101>>>>,   \* 'del': 'delete'
       <<<<99, 111, 110, 116, 114, 111, 108>>, <<99, 116, 114, 108>>>>,   \* 'control': 'ctrl'
       <<<<97, 108, 116, 103, 114>>, <<97, 108, 116, 32, 103, 114>>>>,   \* 'altgr': 'alt gr'
       <<<<108, 101, 102, 116, 32, 97, 114, 114, 111, 119>>, <<108, 101, 102, 116>>>>,   \* 'left arrow': 'left'
       <<<<117, 112, 32, 97, 114, 114, 111, 119>>, <<117, 112>>>>,   \* 'up arrow': 'up'
       <<<<100, 111, 119, 110, 32, 97, 114, 114, 111, 119>>, <<100, 111, 119, 110>>>>,   \* 'down arrow': 'down'
       <<<<114, 105, 103, 104, 116, 32, 97, 114, 114, 111, 119>>, <<114, 105, 103, 104, 116>>>>,   \* 'right arrow': 'right'
       <<<<32>>, <<115, 112, 97, 99, 101>>>>,   \* ' ': 'space'
       <<<<27>>, <<101, 115, 99>>>>,   \* '\x1b': 'esc'
       <<<<8>>, <<98, 97, 99, 107, 115, 112, 97, 99, 101>>>>,   \* '\x08': 'backspace'
       <<<<10>>, <<101, 110, 116, 101, 114>>>>,   \* '\n': 'enter'
       <<<<9>>, <<116, 97, 98>>>>,   \* '\t': 'tab'
       <<<<13>>, <<101, 110, 116, 101, 114>>>>,   \* '\r': 'enter'
       <<<<115, 99, 114, 108, 107>>, <<115, 99, 114, 111, 108, 108, 32, 108, 111, 99, 107>>>>,   \* 'scrlk': 'scroll lock'
       <<<<112, 114, 116, 115, 99, 110>>, <<112, 114, 105, 110, 116, 32, 115, 99, 114, 101, 101, 110>>>>,   \* 'prtscn': 'print screen'
       <<<<112, 114, 110, 116, 32, 115, 99, 114, 110>>, <<112, 114, 105, 110, 116, 32, 115, 99, 114, 101, 101, 110>>>>,   \* 'prnt scrn': 'print screen'
       <<<<115, 110, 97, 112, 115, 104, 111, 116>>, <<112, 114, 105, 110, 116, 32, 115, 99, 114, 101, 101, 110>>>>,   \* 'snapshot': 'print screen'
       <<<<105, 110, 115>>, <<105, 110, 115, 101, 114, 116>>>>,   \* 'ins': 'insert'
       <<<<112, 97, 117, 115, 101, 32, 98, 114, 101, 97, 107>>, <<112, 97, 117, 115, 101>>>>,   \* 'pause break': 'pause'
       <<<<99, 116, 114, 108, 108, 32, 108, 111, 99, 107>>, <<99, 97, 112, 115, 32, 108, 111, 99, 107>>>>,   \* 'ctrll lock': 'caps lock'
       <<<<99, 97, 112, 115, 108, 111, 99, 107>>, <<99, 97, 112, 115, 32, 108, 111, 99, 107>>>>,   \* 'capslock': 'caps lock'
       <<<<110, 117, 109, 98, 101, 114, 32, 108, 111, 99, 107>>, <<110, 117, 109, 32, 108, 111, 99, 107>>>>,   \* 'number lock': 'num lock'
       <<<<110, 117, 109, 108, 111, 99, 107, 58>>, <<110, 117, 109, 32, 108, 111, 99, 107>>>>,   \* 'numlock:': 'num lock'
       <<<<115, 112, 97, 99, 101, 32, 98, 97, 114>>, <<115, 112, 97, 99, 101>>>>,   \* 'space bar': 'space'
       <<<<115, 112, 97, 99, 101, 98, 97, 114>>, <<115, 112, 97, 99, 101>>>>,   \* 'spacebar': 'space'
       <<<<108, 105, 110, 101, 102, 101, 101, 100>>, <<101, 110, 116, 101, 114>>>>,   \* 'linefeed': 'enter'
       <<<<119, 105, 110>>, <<119, 105, 110, 100, 111, 119, 115>>>>,   \* 'win': 'windows'
       <<<<97, 112, 112>>, <<109, 101, 110, 117>>>>,   \* 'app': 'menu'
       <<<<97, 112, 112, 115>>, <<109, 101, 110, 117>>>>,   \* 'apps': 'menu'
       <<<<97, 112, 112, 108, 105, 99, 97, 116, 105, 111, 110>>, <<109, 101, 110, 117>>>>,   \* 'application': 'menu'
       <<<<97, 112, 112, 108, 105, 99, 97, 116, 105, 111, 110, 115>>, <<109, 101, 110, 117>>>>,   \* 'applications': 'menu'
       <<<<112, 97, 103, 101, 100, 111, 119, 110>>, <<112, 97, 103, 101, 32, 100, 111, 119, 110>>>>,   \* 'pagedown': 'page down'
       <<<<112, 97, 103, 101, 117, 112>>, <<112, 97, 103, 101, 32, 117, 112>>>>,   \* 'pageup': 'page up'
       <<<<112, 103, 100, 111, 119, 110>>, <<112, 97, 103, 101, 32, 100, 111, 119, 110>>>>,   \* 'pgdown': 'page down'
       <<<<112, 103, 117, 112>>, <<112, 97, 103, 101, 32, 117, 112>>>>,   \* 'pgup': 'page up'
       <<<<110, 101, 120, 116>>, <<112, 97, 103, 101, 32, 100, 111, 119, 110>>>>,   \* 'next': 'page down'
       <<<<112, 114, 105, 111, 114>>, <<112, 97, 103, 101, 32, 117, 112>>>>,   \* 'prior': 'page up'
       <<<<117, 110, 100, 101, 114, 115, 99, 111, 114, 101>>, <<95>>>>,   \* 'underscore': '_'
       <<<<101, 113, 117, 97, 108>>, <<61>>>>,   \* 'equal': '='
       <<<<109, 105, 110, 112, 108, 117, 115>>, <<43>>>>,   \* 'minplus': '+'
       <<<<112, 108, 117, 115>>, <<43>>>>,   \* 'plus': '+'
       <<<<97, 100, 100>>, <<43>>>>,   \* 'add': '+'
       <<<<115, 117, 98, 116, 114, 97, 99, 116>>, <<45>>>>,   \* 'subtract': '-'
       <<<<109, 105, 110, 117, 115>>, <<45>>>>,   \* 'minus': '-'
       <<<<109, 117, 108, 116, 105, 112, 108, 121>>, <<42>>>>,   \* 'multiply': '*'
       <<<<97, 115, 116, 101, 114, 105, 115, 107>>, <<42>>>>,   \* 'asterisk': '*'
       <<<<100, 105, 118, 105, 100, 101>>, <<47>>>>,   \* 'divide': '/'
       <<<<113, 117, 101, 115, 116, 105, 111, 110>>, <<63>>>>,   \* 'question': '?'
       <<<<101, 120, 99, 108, 97, 109>>, <<33>>>>,   \* 'exclam': '!'
       <<<<115, 108, 97, 115, 104>>, <<47>>>>,   \* 'slash': '/'
       <<<<98, 97, 114>>, <<124>>>>,   \* 'bar': '|'
       <<<<98, 97, 99, 107, 115, 108, 97, 115, 104>>, <<92>>>>,   \* 'backslash': '\\'
       <<<<98, 114, 97, 99, 101, 108, 101, 102, 116>>, <<123>>>>,   \* 'braceleft': '{'
       <<<<98, 114, 97, 99, 101, 114, 105, 103, 104, 116>>, <<125>>>>,   \* 'braceright': '}'
       <<<<98, 114, 97, 99, 107, 101, 116, 108, 101, 102, 116>>, <<91>>>>,   \* 'bracketleft': '['
       <<<<98, 114, 97, 99, 107, 101, 116, 114, 105, 103, 104, 116>>, <<93>>>>,   \* 'bracketright': ']'
       <<<<112, 97, 114, 101, 110, 108, 101, 102, 116>>, <<40>>>>,   \* 'parenleft': '('
       <<<<112, 97, 114, 101, 110, 114, 105, 103, 104, 116>>, <<41>>>>,   \* 'parenright': ')'
       <<<<112, 101, 114, 105, 111, 100>>, <<46>>>>,   \* 'period': '.'
       <<<<100, 111, 116>>, <<46>>>>,   \* 'dot': '.'
       <<<<99, 111, 109, 109, 97>>, <<44>>>>,   \* 'comma': ','
       <<<<115, 101, 109, 105, 99, 111, 108, 111, 110>>, <<59>>>>,   \* 'semicolon': ';'
       <<<<99, 111, 108, 111, 110>>, <<58>>>>,   \* 'colon': ':'
       <<<<108, 101, 115, 115>>, <<60>>>>,   \* 'less': '<'
       <<<<103, 114, 101, 97, 116, 101, 114>>, <<62>>>>,   \* 'greater': '>'
       <<<<97, 109, 112, 101, 114, 115, 97, 110, 100>>, <<38>>>>,   \* 'ampersand': '&'
       <<<<97, 116>>, <<64>>>>,   \* 'at': '@'
       <<<<110, 117, 109, 98, 101, 114, 115, 105, 103, 110>>, <<35>>>>,   \* 'numbersign': '#'
       <<<<104, 97, 115, 104>>, <<35>>>>,   \* 'hash': '#'
       <<<<104, 97, 115, 104, 116, 97, 103>>, <<35>>>>,   \* 'hashtag': '#'
       <<<<100, 111, 108, 108, 97, 114>>, <<36>>>>,   \* 'dollar': '$'
       <<<<115, 116, 101, 114, 108, 105, 110, 103>>, <<163>>>>,   \* 'sterling': '\xa3'
       <<<<112, 111, 117, 110, 100>>, <<163>>>>,   \* 'pound': '\xa3'
       <<<<121, 101, 110>>, <<165>>>>,   \* 'yen': '\xa5'
       <<<<101, 117, 114, 111>>, <<8364>>>>,   \* 'euro': '\u20ac'
       <<<<99, 101, 110, 116>>, <<162>>>>,   \* 'cent': '\xa2'
       <<<<99, 117, 114, 114, 101, 110, 99, 121>>, <<164>>>>,   \* 'currency': '\xa4'
       <<<<114, 101, 103, 105, 115, 116, 101, 114, 101, 100>>, <<174>>>>,   \* 'registered': '\xae'
       <<<<99, 111, 112, 121, 114, 105, 103, 104, 116>>, <<169>>>>,   \* 'copyright': '\xa9'
       <<<<110, 111, 116, 115, 105, 103, 110>>, <<172>>>>,   \* 'notsign': '\xac'
       <<<<112, 101, 114, 99, 101, 110, 116>>, <<37>>>>,   \* 'percent': '%'
       <<<<100, 105, 97, 101, 114, 101, 115, 105, 115>>, <<34>>>>,   \* 'diaeresis': '"'
       <<<<113, 117, 111, 116, 101, 100, 98, 108>>, <<34>>>>,   \* 'quotedbl': '"'
       <<<<111, 110, 101, 115, 117, 112, 101, 114, 105, 111, 114>>, <<185>>>>,   \* 'onesuperior': '\xb9'
       <<<<116, 119, 111, 115, 117, 112, 101, 114, 105, 111, 114>>, <<178>>>>,   \* 'twosuperior': '\xb2'
       <<<<116, 104, 114, 101, 101, 115, 117, 112, 101, 114, 105, 111, 114>>, <<179>>>>,   \* 'threesuperior': '\xb3'
       <<<<111, 110, 101, 104, 97, 108, 102>>, <<189>>>>,   \* 'onehalf': '\xbd'
       <<<<111, 110, 101, 113, 117, 97, 114, 116, 101, 114>>, <<188>>>>,   \* 'onequarter': '\xbc'
       <<<<116, 104, 114, 101, 101, 113, 117, 97, 114, 116, 101, 114, 115>>, <<190>>>>,   \* 'threequarters': '\xbe'
       <<<<112, 97, 114, 97, 103, 114, 97, 112, 104>>, <<182>>>>,   \* 'paragraph': '\xb6'
       <<<<115, 101, 99, 116, 105, 111, 110>>, <<167>>>>,   \* 'section': '\xa7'
       <<<<115, 115, 104, 97, 114, 112>>, <<167>>>>,   \* 'ssharp': '\xa7'
       <<<<100, 105, 118, 105, 115, 105, 111, 110>>, <<247>>>>,   \* 'division': '\xf7'
       <<<<113, 117, 101, 115, 116, 105, 111, 110, 100, 111, 119, 110>>, <<191>>>>,   \* 'questiondown': '\xbf'
       <<<<101, 120, 99, 108, 97, 109, 100, 111, 119, 110>>, <<161>>>>,   \* 'exclamdown': '\xa1'
       <<<<100, 101, 103, 114, 101, 101>>, <<176>>>>,   \* 'degree': '\xb0'
       <<<<103, 117, 105, 108, 108, 101, 109, 111, 116, 114, 105, 103, 104, 116>>, <<187>>>>,   \* 'guillemotright': '\xbb'
       <<<<103, 117, 105, 108, 108, 101, 109, 111, 116, 108, 101, 102, 116>>, <<171>>>>,   \* 'guillemotleft': '\xab'
       <<<<97, 99, 117, 116, 101>>, <<180>>>>,   \* 'acute': '\xb4'
       <<<<97, 103, 117, 100, 111>>, <<180>>>>,   \* 'agudo': '\xb4'
       <<<<103, 114, 97, 118, 101>>, <<96>>>>,   \* 'grave': '`'
       <<<<116, 105, 108, 100, 101>>, <<126>>>>,   \* 'tilde': '~'
       <<<<97, 115, 99, 105, 105, 116, 105, 108, 100, 101>>, <<126>>>>,   \* 'asciitilde': '~'
       <<<<116, 105, 108>>, <<126>>>>,   \* 'til': '~'
       <<<<99, 101, 100, 105, 108, 108, 97>>, <<44>>>>,   \* 'cedilla': ','
       <<<<99, 105, 114, 99, 117, 109, 102, 108, 101, 120>>, <<94>>>>,   \* 'circumflex': '^'
       <<<<97, 112, 111, 115, 116, 114, 111, 112, 104, 101>>, <<39>>>>,   \* 'apostrophe': "'"
       <<<<97, 100, 105, 97, 101, 114, 101, 115, 105, 115>>, <<228>>>>,   \* 'adiaeresis': '\xe4'
       <<<<117, 100, 105, 97, 101, 114, 101, 115, 105, 115>>, <<252>>>>,   \* 'udiaeresis': '\xfc'
       <<<<111, 100, 105, 97, 101, 114, 101, 115, 105, 115>>, <<246>>>>,   \* 'odiaeresis': '\xf6'
       <<<<111, 101>>, <<338>>>>,   \* 'oe': '\u0152'
       <<<<111, 115, 108, 97, 115, 104>>, <<248>>>>,   \* 'oslash': '\xf8'
       <<<<111, 111, 98, 108, 105, 113, 117, 101>>, <<216>>>>,   \* 'ooblique': '\xd8'
       <<<<99, 99, 101, 100, 105, 108, 108, 97>>, <<231>>>>,   \* 'ccedilla': '\xe7'
       <<<<110, 116, 105, 108, 100, 101>>, <<241>>>>,   \* 'ntilde': '\xf1'
       <<<<101, 97, 99, 117, 116, 101>>, <<233>>>>,   \* 'eacute': '\xe9'
       <<<<117, 97, 99, 117, 116, 101>>, <<250>>>>,   \* 'uacute': '\xfa'
       <<<<111, 97, 99, 117, 116, 101>>, <<243>>>>,   \* 'oacute': '\xf3'
       <<<<116, 104, 111, 114, 110>>, <<254>>>>,   \* 'thorn': '\xfe'
       <<<<97, 101>>, <<230>>>>,   \* 'ae': '\xe6'
       <<<<101, 116, 104>>, <<240>>>>,   \* 'eth': '\xf0'
       <<<<109, 97, 115, 99, 117, 108, 105, 110, 101>>, <<186>>>>,   \* 'masculine': '\xba'
       <<<<102, 101, 109, 105, 110, 105, 110, 101>>, <<170>>>>,   \* 'feminine': '\xaa'
       <<<<105, 97, 99, 117, 116, 101>>, <<237>>>>,   \* 'iacute': '\xed'
       <<<<97, 97, 99, 117, 116, 101>>, <<225>>>>,   \* 'aacute': '\xe1'
       <<<<109, 117>>, <<924>>>>,   \* 'mu': '\u039c'
       <<<<97, 114, 105, 110, 103>>, <<229>>>>,   \* 'aring': '\xe5'
       <<<<122, 101, 114, 111>>, <<48>>>>,   \* 'zero': '0'
       <<<<111, 110, 101>>, <<49>>>>,   \* 'one': '1'
       <<<<116, 119, 111>>, <<50>>>>,   \* 'two': '2'
       <<<<116, 104, 114, 101, 101>>, <<51>>>>,   \* 'three': '3'
       <<<<102, 111, 117, 114>>, <<52>>>>,   \* 'four': '4'
       <<<<102, 105, 118, 101>>, <<53>>>>,   \* 'five': '5'
       <<<<115, 105, 120>>, <<54>>>>,   \* 'six': '6'
       <<<<115, 101, 118, 101, 110>>, <<55>>>>,   \* 'seven': '7'
       <<<<101, 105, 103, 104, 116>>, <<56>>>>,   \* 'eight': '8'
       <<<<110, 105, 110, 101>>, <<57>>>>,   \* 'nine': '9'
       <<<<112, 108, 97, 121, 47, 112, 97, 117, 115, 101>>, <<112, 108, 97, 121, 47, 112, 97, 117, 115, 101, 32, 109, 101, 100, 105, 97>>>>,   \* 'play/pause': 'play/pause media'
       <<<<110, 117, 109, 32, 109, 117, 108, 116, 105, 112, 108, 121>>, <<42>>>>,   \* 'num multiply': '*'
       <<<<110, 117, 109, 32, 100, 105, 118, 105, 100, 101>>, <<47>>>>,   \* 'num divide': '/'
       <<<<110, 117, 109, 32, 97, 100, 100>>, <<43>>>>,   \* 'num add': '+'
       <<<<110, 117, 109, 32, 112, 108, 117, 115>>, <<43>>>>,   \* 'num plus': '+'
       <<<<110, 117, 109, 32, 109, 105, 110, 117, 115>>, <<45>>>>,   \* 'num minus': '-'
       <<<<110, 117, 109, 32, 115, 117, 98>>, <<45>>>>,   \* 'num sub': '-'
       <<<<110, 117, 109, 32, 101, 110, 116, 101, 114>>, <<101, 110, 116, 101, 114>>>>,   \* 'num enter': 'enter'
       <<<<110, 117, 109, 32, 48>>, <<48>>>>,   \* 'num 0': '0'
       <<<<110, 117, 109, 32, 49>>, <<49>>>>,   \* 'num 1': '1'
       <<<<110, 117, 109, 32, 50>>, <<50>>>>,   \* 'num 2': '2'
       <<<<110, 117, 109, 32, 51>>, <<51>>>>,   \* 'num 3': '3'
       <<<<110, 117, 109, 32, 52>>, <<52>>>>,   \* 'num 4': '4'
       <<<<110, 117, 109, 32, 53>>, <<53>>>>,   \* 'num 5': '5'
       <<<<110, 117, 109, 32, 54>>, <<54>>>>,   \* 'num 6': '6'
       <<<<110, 117, 109, 32, 55>>, <<55>>>>,   \* 'num 7': '7'
       <<<<110, 117, 109, 32, 56>>, <<56>>>>,   \* 'num 8': '8'
       <<<<110, 117, 109, 32, 57>>, <<57>>>>,   \* 'num 9': '9'
       <<<<108, 101, 102, 116, 32, 119, 105, 110>>, <<108, 101, 102, 116, 32, 119, 105, 110, 100, 111, 119, 115>>>>,   \* 'left win': 'left windows'
       <<<<114, 105, 103, 104, 116, 32, 119, 105, 110>>, <<114, 105, 103, 104, 116, 32, 119, 105, 110, 100, 111, 119, 115>>>>,   \* 'right win': 'right windows'
       <<<<108, 101, 102, 116, 32, 99, 111, 110, 116, 114, 111, 108>>, <<108, 101, 102, 116, 32, 99, 116, 114, 108>>>>,   \* 'left control': 'left ctrl'
       <<<<114, 105, 103, 104, 116, 32, 99, 111, 110, 116, 114, 111, 108>>, <<114, 105, 103, 104, 116, 32, 99, 116, 114, 108>>>>,   \* 'right control': 'right ctrl'
       <<<<108, 101, 102, 116, 32, 109, 101, 110, 117>>, <<108, 101, 102, 116, 32, 97, 108, 116>>>>    \* 'left menu': 'left alt'
    >>)

\* canonical_names.get(name, name)
CanonicalOf(name) == IF name \in DOMAIN canonical_names THEN canonical_names[name] ELSE name

\* lines 660-662 of normalize_name, on the lower-cased name
Canonical(lowered) ==
    CanonicalOf(IF lowered # Underscore THEN ReplaceUnderscores(lowered) ELSE lowered)

\* _win_raw_input.normalize_name
normalize_name(name) ==
    IF name = <<>> THEN Unknown ELSE Canonical(StrLower(name))

\* ------------------------------------------------------------------ state
\* one failing platform call at most, with the error code it leaves
Envs(points, codes) ==
    {NoFailure} \cup {[fails |-> {p}, err |-> e, at |-> 0] : p \in points, e \in codes}

\* for hook_raw_input_for_window: also the usage whose registration fails
HookEnvs ==
    Envs({"setwndproc", "registerclass", "createwindow"}, {5, 1168}) \cup
    {[fails |-> {"register"}, err |-> e, at |-> 2] : e \in {5, 1168}}

\* the orders in which the OS may enumerate the connected devices
Orders(os) ==
    LET on == {h \in Handles : os[h] # Unplugged}
    IN  {o \in [1..Cardinality(on) -> on] :
            \A i, j \in DOMAIN o : i # j => o[i] # o[j]}

\* the device_types arguments tried: the default, and one that names a usage
\* for every device of Hardware
DeviceTypeChoices ==
    { <<"keyboard", "mouse", "controller">>,
      <<"Keyboard", "mouse", "game pad", "joystick">> }

\* the payloads a device of each class sends: for a mouse a move, the left
\* button pressed and the wheel turned up; for a keyboard the four message
\* codes, among them a keypad key and a virtual key VIRTUAL_KEYBOARD lacks;
\* for an HID a report of 3 x 4 bytes and one of 4 x 8 bytes
Payloads(dwType) ==
    CASE dwType = 0 ->
           { [ulButtons |-> Buttons(0), lLastX |-> 5, lLastY |-> -3],
             [ulButtons |-> Buttons(1), lLastX |-> 0, lLastY |-> 0],
             [ulButtons |-> Buttons(7865344), lLastX |-> 0, lLastY |-> 0] }
      [] dwType = 1 ->
           { [message |-> WM_KEYDOWN, vk_code |-> 65, scan_code |-> 30],
             [message |-> WM_KEYUP, vk_code |-> 97, scan_code |-> 79],
             [message |-> WM_SYSKEYDOWN, vk_code |-> 18, scan_code |-> 56],
             [message |-> WM_SYSKEYUP, vk_code |-> 18, scan_code |-> 56],
             [message |-> WM_KEYDOWN, vk_code |-> 255, scan_code |-> 86] }
      [] dwType = 2 ->
           { [dwSizeHid |-> 4, dwCount |-> 3,
              bRawData |-> <<1, 2, 3, 4, 5, 6, 7, 8, 9, 10, 11, 12>>],
             [dwSizeHid |-> 8, dwCount |-> 4,
              bRawData |-> [i \in 1..32 |-> i]] }
      [] OTHER -> { [unknown |-> 0] }

\* the payloads with which a failure of the environment is tried: a move, a
\* key pressed, and every payload of the other classes
FailurePayloads(dwType) ==
    CASE dwType = 0 -> { [ulButtons |-> Buttons(0), lLastX |-> 5, lLastY |-> -3] }
      [] dwType = 1 -> { [message |-> WM_KEYDOWN, vk_code |-> 65, scan_code |-> 30] }
      [] OTHER -> Payloads(dwType)

\* the size GetRawInputData reports for a payload: on 64-bit Windows the
\* header takes RAWINPUTHEADER_SIZE bytes, on 32-bit Windows 8 bytes less
HeaderSizes == {RAWINPUTHEADER_SIZE, RAWINPUTHEADER_SIZE - 8}
PayloadSize(dwType, data, header) ==
    CASE dwType = 0 -> header + 24
      [] dwType = 1 -> header + 16
      [] dwType = 2 -> header + 8 + data.dwSizeHid * data.dwCount
      [] OTHER -> header

NoRaw == [dwType |-> 0, dwSize |-> 0, hDevice |-> NULL, data |-> <<>>]

\* the messages the OS may send to window hwnd: any message of another
\* kind, and a WM_INPUT for each connected device whose usage is registered
\* with hwnd as its target
Messages(os, reg, hwnd) ==
    {[msg |-> WM_KEYDOWN, raw |-> NoRaw]} \cup
    {[msg |-> WM_INPUT,
      raw |-> [dwType |-> Hardware[os[h]].dwType,
               dwSize |-> PayloadSize(Hardware[os[h]].dwType, d, hs),
               hDevice |-> h, data |-> d]] :
       hs \in HeaderSizes,
       <<h, d>> \in UNION {{h2} \X Payloads(Hardware[os[h2]].dwType) :
          h2 \in {h3 \in Handles : /\ os[h3] # Unplugged
                                   /\ Hardware[os[h3]].usage \in DOMAIN reg
                                   /\ reg[Hardware[os[h3]].usage].target = hwnd}}}

NoCall ==
    [op |-> "none", args |-> <<>>, res |-> Return(<<>>), pre |-> EmptyCache,
     enum |-> <<>>, env |-> NoFailure, nameQ |-> 0, infoQ |-> 0,
     prevList |-> <<>>, trace |-> <<>>, events |-> <<>>, target |-> NULL,
     preWin |-> <<>>]

Win == [wndproc |-> wndproc, helper |-> helper, registered |-> registered,
        refs |-> refs]

Init ==
    /\ devices = [h \in Handles |-> Unplugged]
    /\ CACHED_DEVICES = EmptyCache
    /\ wndproc = [w \in AllHwnds |-> <<>>]
    /\ helper = "none"
    /\ registered = [x \in {} |-> NULL]
    /\ refs = 0
    /\ installs = 0
    /\ last = NoCall

\* the OS connects a device under a free handle
Plug(h, hw) ==
    /\ devices[h] = Unplugged
    /\ devices' = [devices EXCEPT ![h] = hw]
    /\ last' = [NoCall EXCEPT !.op = "plug", !.args = <<h, hw>>]
    /\ UNCHANGED <<CACHED_DEVICES, osvars, installs>>

\* a device is disconnected; its handle may be handed out again
Unplug(h) ==
    /\ devices[h] # Unplugged
    /\ devices' = [devices EXCEPT ![h] = Unplugged]
    /\ last' = [NoCall EXCEPT !.op = "unplug", !.args = <<h>>]
    /\ UNCHANGED <<CACHED_DEVICES, osvars, installs>>

\* a call of list_devices()
Listed(env, arr, r) ==
    /\ CACHED_DEVICES' = r.cache
    /\ last' = [NoCall EXCEPT !.op = "list_devices", !.res = r.res,
                  !.pre = CACHED_DEVICES, !.enum = arr,
                  !.env = env, !.nameQ = r.nameQ, !.infoQ = r.infoQ,
                  !.prevList = IF last.op = "list_devices"
                               THEN <<[res |-> last.res, env |-> last.env]>> ELSE <<>>]
    /\ UNCHANGED <<devices, osvars, installs>>

ListDevices(env, order) ==
    Listed(env, get_raw_input_device_list(devices, env, order),
           list_devices(CACHED_DEVICES, devices, env, order))

\* a call of get_device(dw_type, handle)
Got(env, dw_type, handle, r) ==
    /\ CACHED_DEVICES' = r.cache
    /\ last' = [NoCall EXCEPT !.op = "get_device", !.args = <<dw_type, handle>>,
                  !.res = r.res, !.pre = CACHED_DEVICES, !.env = env,
                  !.nameQ = r.nameQ, !.infoQ = r.infoQ,
                  !.prevList = IF last.op = "list_devices"
                               THEN <<[res |-> last.res, env |-> last.env]>> ELSE <<>>]
    /\ UNCHANGED <<devices, osvars, installs>>

GetDevice(env, dw_type, handle) ==
    Got(env, dw_type, handle, get_device(CACHED_DEVICES, devices, env, dw_type, handle))

\* a call of is_connected(handle)
IsConnected(env, handle) ==
    /\ last' = [NoCall EXCEPT !.op = "is_connected", !.args = <<handle>>,
                  !.res = is_connected(devices, env, handle),
                  !.pre = CACHED_DEVICES, !.env = env]
    /\ UNCHANGED <<devices, CACHED_DEVICES, osvars, installs>>

\* a call of hook_raw_input_for_window(hwnd, callback, device_types); the
\* hook it installs is numbered by the call
HookedUp(env, hwnd, device_types, r) ==
    /\ wndproc' = r.win.wndproc
    /\ helper' = r.win.helper
    /\ registered' = r.win.registered
    /\ refs' = r.win.refs
    /\ last' = [NoCall EXCEPT !.op = "hook", !.args = <<hwnd, device_types>>,
                  !.res = r.res, !.pre = CACHED_DEVICES, !.env = env,
                  !.trace = r.trace, !.target = r.target, !.preWin = Win]
    /\ installs' = installs + 1
    /\ UNCHANGED <<devices, CACHED_DEVICES>>

Hook(env, hwnd, device_types) ==
    /\ installs < MaxInstalls
    /\ HookedUp(env, hwnd, device_types,
                hook_raw_input_for_window(Win, env, hwnd, installs + 1, device_types))

\* the OS calls the window procedure of hwnd with one message
Dispatched(env, hwnd, m, r) ==
    /\ CACHED_DEVICES' = r.cache
    /\ last' = [NoCall EXCEPT !.op = "dispatch", !.args = <<hwnd, m>>,
                  !.res = r.res, !.pre = CACHED_DEVICES, !.env = env,
                  !.nameQ = r.nameQ, !.infoQ = r.infoQ,
                  !.trace = r.trace, !.events = r.events]
    /\ UNCHANGED <<devices, osvars, installs>>

Dispatch(env, hwnd, m) ==
    /\ hwnd = HelperHwnd => helper = "window"
    /\ "corrupt" \in env.fails => m.msg = WM_INPUT /\ m.raw.dwSize > RAWINPUT_SIZE
    /\ env # NoFailure =>
          /\ m.msg = WM_INPUT
          /\ m.raw.data \in FailurePayloads(m.raw.dwType)
    /\ env.fails \ {"optimized"} # {} =>
          m.raw.dwSize = PayloadSize(m.raw.dwType, m.raw.data, RAWINPUTHEADER_SIZE)
    /\ m \in Messages(devices, registered, hwnd)
    /\ Dispatched(env, hwnd, m,
         WindowProcedure(wndproc[hwnd], Len(wndproc[hwnd]),
            [res |-> Return(<<>>), cache |-> CACHED_DEVICES, nameQ |-> 0,
             infoQ |-> 0, trace |-> <<>>, events |-> <<>>],
            devices, env, hwnd, m))

\* one failing platform call at most; or a run under python -O; or, for a
\* payload that does not fit the RAWINPUT buffer, the process dying of it
DispatchEnvs == Envs({"rawsize", "rawfetch", "callback", "optimized", "corrupt"}, {5})

Next ==
    \/ \E h \in Handles, hw \in DOMAIN Hardware : Plug(h, hw)
    \/ \E h \in Handles : Unplug(h)
    \/ \E env \in Envs({"enumCount", "enumFetch"}, {5}),
          order \in Orders(devices) : ListDevices(env, order)
    \/ \E t \in 0..3, h \in Handles \cup {NULL} : GetDevice(NoFailure, t, h)
    \/ \E env \in Envs({"name"}, PlatformErrors), h \in Handles : IsConnected(env, h)
    \/ \E env \in HookEnvs, hwnd \in Hwnds \cup {NULL}, types \in DeviceTypeChoices :
          Hook(env, hwnd, types)
    \/ \E hwnd \in AllHwnds : \E m \in Messages(devices, registered, hwnd) :
          \E env \in DispatchEnvs : Dispatch(env, hwnd, m)

Spec == Init /\ [][Next]_vars

\* ------------------------------------------- normalize_name on its own
\* The names normalize_name is applied to: the empty name, '_', 'unknown',
\* every key and every value of canonical_names, and each of them in upper
\* case, in title case and with its spaces written as underscores.
UpperChar(c) == IF c \in 97..122 THEN c - 32 ELSE c
StrUpper(name) == [i \in DOMAIN name |-> UpperChar(name[i])]
StrTitle(name) ==
    [i \in DOMAIN name |->
        IF i = 1 \/ name[IF i = 1 THEN 1 ELSE i - 1] = 32 THEN UpperChar(name[i])
        ELSE name[i]]
Underscored(name) == [i \in DOMAIN name |-> IF name[i] = 32 THEN 95 ELSE name[i]]
Spellings(name) == {name, StrUpper(name), StrTitle(name), Underscored(name)}
NameInputs ==
    {<<>>, Underscore, Unknown} \cup
    UNION {Spellings(n) : n \in DOMAIN canonical_names \cup Range(canonical_names)}

NormInit ==
    /\ devices = [h \in Handles |-> Unplugged]
    /\ CACHED_DEVICES = EmptyCache
    /\ wndproc = [w \in AllHwnds |-> <<>>]
    /\ helper = "none"
    /\ registered = [x \in {} |-> NULL]
    /\ refs = 0
    /\ installs = 0
    /\ \E n \in NameInputs : last = [NoCall EXCEPT !.op = "name", !.args = <<n>>]

\* normalize_name(name)
Normalize ==
    /\ last.op = "name"
    /\ last' = [last EXCEPT !.op = "normalize_name",
                            !.res = Return(normalize_name(last.args[1]))]
    /\ UNCHANGED <<devices, CACHED_DEVICES, osvars, installs>>

\* normalize_name applied to what normalize_name returned
NormalizeAgain ==
    /\ last.op = "normalize_name"
    /\ last' = [last EXCEPT !.op = "normalize_name again",
                            !.prevList = <<[res |-> last.res, env |-> last.env]>>,
                            !.res = Return(normalize_name(last.res.value))]
    /\ UNCHANGED <<devices, CACHED_DEVICES, osvars, installs>>

NormNext == Normalize \/ NormalizeAgain
NormSpec == NormInit /\ [][NormNext]_vars

\* ================================================================ claims
Count(trace, step) == Cardinality({i \in DOMAIN trace : trace[i].step = step})
HandlesOf(ds) == [i \in DOMAIN ds |-> ds[i].handle]
EnumHandles(arr) == [i \in DOMAIN arr |-> arr[i].hDevice]
Injective(q) == \A i, j \in DOMAIN q : q[i] = q[j] => i = j
DefaultDeviceTypes == <<"keyboard", "mouse", "controller">>

C2_ListThenGetIsCached ==
    /\ (/\ last.op = "get_device"
        /\ last.prevList # <<>>
        /\ last.prevList[1].res.status = "return"
        /\ last.args[2] \in Range(HandlesOf(last.prevList[1].res.value)))
       => /\ last.res.status = "return"
          /\ last.res.value \in Range(last.prevList[1].res.value)
          /\ last.nameQ = 0 /\ last.infoQ = 0
          /\ CACHED_DEVICES = last.pre
    /\ (/\ last.op = "list_devices"
        /\ last.prevList # <<>>
        /\ last.env = NoFailure
        /\ last.prevList[1].env = NoFailure)
       => /\ last.res.status = "return"
          /\ last.prevList[1].res.status = "return"
          /\ Range(last.res.value) = Range(last.prevList[1].res.value)

\* C3: get_device(class, handle) for a connected handle that is not cached
\* and a class 0, 1 or 2 makes one name lookup and one info lookup, returns
\* the variant of that class and leaves the cache as it was plus that entry.
C3_FirstTouchCaches ==
    (/\ last.op = "get_device"
     /\ last.args[1] \in {0, 1, 2}
     /\ last.args[2] \notin DOMAIN last.pre
     /\ Present(devices, last.args[2]))
    => /\ last.res.status = "return"
       /\ last.nameQ = 1 /\ last.infoQ = 1
       /\ last.res.value.handle = last.args[2]
       /\ last.res.value.variant =
             (CASE last.args[1] = 0 -> "Mouse" [] last.args[1] = 1 -> "Keyboard"
                [] OTHER -> "HID")
       /\ DOMAIN CACHED_DEVICES = DOMAIN last.pre \cup {last.args[2]}
       /\ CACHED_DEVICES[last.args[2]] = last.res.value
       /\ \A h \in DOMAIN last.pre : CACHED_DEVICES[h] = last.pre[h]

\* C4 as stated: is_connected returns true when the name query succeeds,
\* false exactly when the OS reports element-not-found (1168), and raises for
\* every other error code.
C4_FalseOnElementNotFound ==
    last.op = "is_connected" =>
        IF Present(devices, last.args[1]) /\ "name" \notin last.env.fails
        THEN last.res.status = "return" /\ last.res.value = TRUE
        ELSE IF last.env.err = 1168
        THEN last.res.status = "return" /\ last.res.value = FALSE
        ELSE last.res.status = "raise"

\* C4 as amended: is_connected returns true when the name query succeeds,
\* false exactly when the last-error code is 6 (invalid handle), and raises an
\* OSError carrying the code for every other code, element-not-found (1168)
\* and access-denied (5) included.
C4_FalseOnInvalidHandle ==
    last.op = "is_connected" =>
        IF Present(devices, last.args[1]) /\ "name" \notin last.env.fails
        THEN last.res.status = "return" /\ last.res.value = TRUE
        ELSE IF last.env.err = 6
        THEN last.res.status = "return" /\ last.res.value = FALSE
        ELSE /\ last.res.status = "raise"
             /\ last.res.error = "OSError"
             /\ last.res.winerror = last.env.err

\* is_connected has raised on element-not-found for an unplugged handle
C4_Witness ==
    /\ last.op = "is_connected"
    /\ ~Present(devices, last.args[1])
    /\ last.env.err = 1168
    /\ last.res.status = "raise"

\* C5: a message sent to a window hooked with its identifier runs the hook
\* first and then reaches the window's original procedure, exactly once and
\* last, whatever the message and whether or not the hook failed.
C5_AlwaysForwarded ==
    (/\ last.op = "dispatch"
     /\ last.args[1] \in Hwnds
     /\ Len(wndproc[last.args[1]]) >= 1)
    => /\ Count(last.trace, "original") = 1
       /\ last.trace[1].step = "hook"
       /\ last.trace[Len(last.trace)].step = "original"

\* C6: every procedure hooked on the window calls its callback exactly once,
\* with one event, for a WM_INPUT message, and for a message of another kind
\* calls no callback, queries no payload and leaves the cache alone.
C6_CallbackOncePerNotification ==
    (/\ last.op = "dispatch"
     /\ Len(wndproc[last.args[1]]) >= 1
     /\ last.env = NoFailure)
    => IF last.args[2].msg = WM_INPUT
       THEN /\ \A k \in DOMAIN wndproc[last.args[1]] :
                 Cardinality({i \in DOMAIN last.trace :
                                /\ last.trace[i].step = "callback"
                                /\ last.trace[i].id = wndproc[last.args[1]][k].hook}) = 1
            /\ Len(last.events) = Len(wndproc[last.args[1]])
       ELSE /\ Count(last.trace, "callback") = 0
            /\ Count(last.trace, "size query") = 0
            /\ last.events = <<>>
            /\ last.nameQ = 0 /\ last.infoQ = 0
            /\ CACHED_DEVICES = last.pre

\* C7: when hook_raw_input_for_window returns, the procedure was installed
\* first and every requested class is then registered, with RIDEV_INPUTSINK and
\* the hooked window as its target; and a call with the default classes, in
\* which no platform call fails, does return, all three registered.
C7_AllClassesRegistered ==
    last.op = "hook" =>
      /\ last.res.status = "return" =>
           /\ last.trace[1].step = "install"
           /\ last.target = (IF last.args[1] # NULL THEN last.args[1] ELSE HelperHwnd)
           /\ Len(last.trace) = Len(last.args[2]) + 1
           /\ \A i \in DOMAIN last.args[2] :
                 /\ last.trace[i + 1] = Step("register", i, "")
                 /\ registered[USAGE_NAME_TO_VALUE[Lower(last.args[2][i])]] =
                       [flags |-> RIDEV_INPUTSINK, target |-> last.target]
      /\ (/\ last.args[2] = DefaultDeviceTypes
          /\ last.env = NoFailure
          /\ (last.args[1] # NULL \/ last.preWin.helper = "none"))
         => /\ last.res.status = "return"
            /\ Count(last.trace, "register") = 3

\* the platform call that env makes fail was reached by the last hook call
C8_FailureReached ==
    /\ last.op = "hook"
    /\ \/ "setwndproc" \in last.env.fails /\ last.args[1] # NULL
       \/ last.args[1] = NULL /\ last.preWin.helper # "none"
       \/ /\ last.args[1] = NULL
          /\ last.env.fails \cap {"registerclass", "createwindow"} # {}
       \/ /\ "register" \in last.env.fails
          /\ \E i \in DOMAIN last.args[2] :
                /\ Lower(last.args[2][i]) \in DOMAIN USAGE_NAME_TO_VALUE
                /\ USAGE_NAME_TO_VALUE[Lower(last.args[2][i])][2] = last.env.at
                /\ \A j \in 1..(i - 1) :
                      Lower(last.args[2][j]) \in DOMAIN USAGE_NAME_TO_VALUE

C8_Code ==
    IF last.args[1] = NULL /\ last.preWin.helper # "none"
    THEN ERROR_CLASS_ALREADY_EXISTS ELSE last.env.err

\* no class at or after the failing step is registered by the last hook call
C8_NothingLaterRegistered ==
    LET failed == last.trace[Len(last.trace)]
        before == IF failed.step = "register failed" THEN failed.id - 1 ELSE 0
    IN  /\ failed.step \in {"install failed", "register failed"}
        /\ \A x \in DOMAIN registered :
              (x \notin DOMAIN last.preWin.registered
                 \/ registered[x] # last.preWin.registered[x])
              => \E j \in 1..before : USAGE_NAME_TO_VALUE[Lower(last.args[2][j])] = x

\* C8 as stated: when replacing the entry point, creating the helper window
\* or registering a class fails, the call raises an OSError carrying the
\* platform error code and registers no later class.
C8_FailureRaisesOSError ==
    C8_FailureReached =>
        /\ last.res.status = "raise"
        /\ last.res.error = "OSError"
        /\ last.res.winerror = C8_Code
        /\ C8_NothingLaterRegistered

\* C8 as amended: the call raises an error carrying the platform error code,
\* which is an OSError except when CreateWindowExW fails: then it is a
\* RuntimeError whose message names the code; no later class is registered.
C8_FailureRaises ==
    C8_FailureReached =>
        /\ last.res.status = "raise"
        /\ last.res.error =
              (IF /\ last.args[1] = NULL
                  /\ last.preWin.helper = "none"
                  /\ "createwindow" \in last.env.fails
               THEN "RuntimeError" ELSE "OSError")
        /\ last.res.winerror = C8_Code
        /\ C8_NothingLaterRegistered

\* registering the second class failed after the first was registered
C8_Witness ==
    /\ last.op = "hook"
    /\ "register" \in last.env.fails
    /\ last.res.status = "raise"
    /\ last.trace[Len(last.trace)] = Step("register failed", 2, "OSError")
    /\ <<1, 6>> \in DOMAIN registered
    /\ <<1, 2>> \notin DOMAIN registered

\* C9: get_device with a class other than 0, 1, 2 raises the unsupported
\* device class error (NotImplementedError) and leaves the cache unchanged,
\* cached handle or not; a WM_INPUT whose dwType is another value makes the
\* hook fail with that error, no callback called.
C9_UnsupportedClassRaises ==
    /\ (last.op = "get_device" /\ last.args[1] \notin {0, 1, 2})
       => /\ last.res.status = "raise"
          /\ last.res.error = "NotImplementedError"
          /\ CACHED_DEVICES = last.pre
    /\ (/\ last.op = "dispatch"
        /\ last.env = NoFailure
        /\ Len(wndproc[last.args[1]]) >= 1
        /\ last.args[2].msg = WM_INPUT
        /\ last.args[2].raw.dwType \notin {0, 1, 2})
       => /\ last.res.status = "raise"
          /\ last.res.error = "NotImplementedError"
          /\ Count(last.trace, "callback") = 0

\* C10: whatever the OS enumerates and whatever was cached, list_devices()
\* returns one entry for each enumerated device, in enumeration order, no
\* handle twice.
C10_ListInEnumerationOrder ==
    (last.op = "list_devices" /\ last.env = NoFailure)
    => /\ last.res.status = "return"
       /\ HandlesOf(last.res.value) = EnumHandles(last.enum)
       /\ Injective(HandlesOf(last.res.value))

\* C11: normalize_name is idempotent on every name (the keys and the values
\* of the alias table, the empty name, names that differ in case or
\* underscores): normalizing a normalized name gives it back; and
\* normalize_name('escape') is 'esc', normalize_name('Left Arrow') is 'left',
\* normalize_name('_') is '_'.
C11_NormalizeIdempotent ==
    /\ last.op = "normalize_name again" =>
          last.res.value = last.prevList[1].res.value
    /\ last.op = "normalize_name" =>
          /\ last.args[1] = <<101, 115, 99, 97, 112, 101>> => last.res.value = <<101, 115, 99>>
          /\ last.args[1] = <<76, 101, 102, 116, 32, 65, 114, 114, 111, 119>> => last.res.value = <<108, 101, 102, 116>>
          /\ last.args[1] = Underscore => last.res.value = Underscore

\* the last call was the dispatch, with nothing failing, of a raw-input
\* notification of a device of class dwType, of the size 64-bit Windows gives
\* it, to a window with a hook installed
Notified(dwType) ==
    /\ last.op = "dispatch"
    /\ last.env = NoFailure
    /\ Len(wndproc[last.args[1]]) >= 1
    /\ last.args[2].msg = WM_INPUT
    /\ last.args[2].raw.dwType = dwType
    /\ last.args[2].raw.dwSize =
          PayloadSize(dwType, last.args[2].raw.data, RAWINPUTHEADER_SIZE)
Delivered == last.res.status = "return" /\ last.events # <<>>
Events == Range(last.events)

\* C12: every keyboard notification, whichever of the four message codes
\* (key-down, key-up, system-key-down, system-key-up) it carries, is decoded
\* without error into an event of type 'down' (key-down, system-key-down) or
\* 'up' (key-up, system-key-up).
C12_KeyboardDownOrUp ==
    Notified(1) =>
        /\ Delivered
        /\ \A e \in Events :
              e.event_type =
                 (IF last.args[2].raw.data.message \in {WM_KEYDOWN, WM_SYSKEYDOWN}
                  THEN "down" ELSE "up")

\* C13: a keyboard notification with virtual key vk and scan code sc gives an
\* event whose code is sc, whose name and keypad flag are VIRTUAL_KEYBOARD's
\* entry for vk when it has one and else the scan-code name of sc and
\* non-keypad, and whose device type is 'keypad' exactly for a keypad key;
\* vk 65 with key-down gives 'down', 'keyboard', 'a'.
C13_KeyboardNameAndKeypad ==
    Notified(1) =>
        /\ Delivered
        /\ \A e \in Events :
              /\ e.code = last.args[2].raw.data.scan_code
              /\ IF last.args[2].raw.data.vk_code \in DOMAIN VIRTUAL_KEYBOARD
                 THEN /\ e.name = <<VIRTUAL_KEYBOARD[last.args[2].raw.data.vk_code][1]>>
                      /\ e.device_type =
                            (IF VIRTUAL_KEYBOARD[last.args[2].raw.data.vk_code][2]
                             THEN "keypad" ELSE "keyboard")
                 ELSE /\ e.name = <<KEY_NAMES_LOWER[last.args[2].raw.data.scan_code]>>
                      /\ e.device_type = "keyboard"
              /\ (/\ last.args[2].raw.data.vk_code = 65
                  /\ last.args[2].raw.data.message = WM_KEYDOWN)
                 => /\ e.event_type = "down"
                    /\ e.device_type = "keyboard"
                    /\ e.name = <<"a">>

\* C14: a mouse notification with a zero button field gives a 'move' event
\* with the payload's two deltas and no code and no name; with a nonzero field
\* it gives no deltas and the event type, button index and name MOUSE_BUTTONS
\* holds for the field (field 1: 'down', 'left'; the wheel turned up:
\* 'wheel-up').
C14_MouseMoveOrButton ==
    Notified(0) =>
        /\ Delivered
        /\ \A e \in Events :
              IF last.args[2].raw.data.ulButtons = Buttons(0)
              THEN /\ e.event_type = "move"
                   /\ e.delta_x = <<last.args[2].raw.data.lLastX>>
                   /\ e.delta_y = <<last.args[2].raw.data.lLastY>>
                   /\ e.code = -1 /\ e.name = <<>>
              ELSE /\ e.delta_x = <<>> /\ e.delta_y = <<>>
                   /\ <<e.event_type, e.code, e.name>> =
                         <<MOUSE_BUTTONS[last.args[2].raw.data.ulButtons][1],
                           MOUSE_BUTTONS[last.args[2].raw.data.ulButtons][2],
                           <<MOUSE_BUTTONS[last.args[2].raw.data.ulButtons][3]>> >>
                   /\ last.args[2].raw.data.ulButtons = Buttons(1)
                      => e.event_type = "down" /\ e.name = <<"left">>
                   /\ last.args[2].raw.data.ulButtons = Buttons(7865344)
                      => e.event_type = "wheel-up"

\* C15: an HID notification with report size s and report count c gives a
\* 'data' event whose data is exactly the s*c bytes of the reports, whose name
\* is '<c> x <s> bytes' and which has no deltas; s = 4, c = 3 gives 12 bytes
\* and '3 x 4 bytes'.
C15_HidReportBytes ==
    Notified(2) =>
        /\ Delivered
        /\ \A e \in Events :
              /\ e.event_type = "data"
              /\ e.data = <<last.args[2].raw.data.bRawData>>
              /\ Len(e.data[1]) =
                    last.args[2].raw.data.dwSizeHid * last.args[2].raw.data.dwCount
              /\ e.delta_x = <<>> /\ e.delta_y = <<>>
              /\ (/\ last.args[2].raw.data.dwSizeHid = 4
                  /\ last.args[2].raw.data.dwCount = 3)
                 => Len(e.data[1]) = 12 /\ e.name = <<"3 x 4 bytes">>

\* the last call was the dispatch of a raw-input notification to a window
\* with a hook installed
C16_Notification ==
    /\ last.op = "dispatch"
    /\ Len(wndproc[last.args[1]]) >= 1
    /\ last.args[2].msg = WM_INPUT
C16_NoCallback == Count(last.trace, "callback") = 0 /\ last.events = <<>>

\* C16: when the payload fetch returns another size than the size query
\* reported, the hook raises at once (AssertionError, before the device is
\* resolved) and no callback is called; when a keyboard payload is not 40
\* bytes or a mouse payload not 48 bytes the hook raises and no callback is
\* called; when the size query fails the hook raises an OSError carrying the
\* platform error code.
C16_MalformedPayloadRaises ==
    C16_Notification =>
        /\ "rawsize" \in last.env.fails =>
              /\ last.res.status = "raise"
              /\ last.res.error = "OSError"
              /\ last.res.winerror = last.env.err
              /\ C16_NoCallback
        /\ "rawfetch" \in last.env.fails =>
              /\ last.res.status = "raise"
              /\ last.res.error = "AssertionError"
              /\ Count(last.trace, "get_device") = 0
              /\ C16_NoCallback
        /\ (\/ /\ last.args[2].raw.dwType = 1
               /\ last.args[2].raw.dwSize # KEYBOARD_PAYLOAD_SIZE
            \/ /\ last.args[2].raw.dwType = 0
               /\ last.args[2].raw.dwSize # MOUSE_PAYLOAD_SIZE) =>
              /\ last.res.status = "raise"
              /\ C16_NoCallback

\* the fetch of a keyboard notification returned another size and the hook
\* raised AssertionError
C16_Witness ==
    /\ C16_Notification
    /\ "rawfetch" \in last.env.fails
    /\ last.args[2].raw.dwType = 1
    /\ last.res.error = "AssertionError"
    /\ last.trace[Len(last.trace)].step = "dropped"

\* C17: get_device on a connected device of class 0, 1 or 2 never raises
\* over its metadata: a mouse-type, keyboard-type, usage-page or usage code
\* resolves to its table name, or to 'unknown' when the tables lack it, and
\* a mouse sample rate of 0 is stored as absent.
C17_MetadataResolved ==
    (/\ last.op = "get_device"
     /\ last.args[1] \in {0, 1, 2}
     /\ Present(devices, last.args[2])
     /\ Hardware[devices[last.args[2]]].dwType = last.args[1])
    => /\ last.res.status = "return"
       /\ LET u == Hardware[devices[last.args[2]]].u
              meta == last.res.value.meta
          IN  CASE last.args[1] = 0 ->
                     /\ meta[1] = MOUSE_TYPES_get(u[1])
                     /\ meta[3] = (IF u[3] = 0 THEN <<>> ELSE <<u[3]>>)
                [] last.args[1] = 1 -> meta[1] = KEYBOARD_TYPES_get(u[1])
                [] OTHER ->
                     /\ meta[5] = USAGE_PAGE_NAMES_get(u[4] % 65536)[1]
                     /\ meta[7] = (IF u[4] % 65536 = 1
                                   THEN GENERIC_DESKTOP_CONTROLS_PAGE_get(u[4] \div 65536)
                                   ELSE "unknown")

\* the ids of the hooks that ran, in the order they ran
RECURSIVE HooksRun(_)
HooksRun(trace) ==
    IF trace = <<>> THEN <<>>
    ELSE IF trace[1].step = "hook" THEN <<trace[1].id>> \o HooksRun(Tail(trace))
    ELSE HooksRun(Tail(trace))
Reversed(q) == [i \in DOMAIN q |-> q[Len(q) + 1 - i]]

\* C18: with k >= 1 hooks installed on a window by its identifier, every
\* message the window receives is seen once by each of the k hooks, the last
\* installed first, and then reaches the window's original handler exactly
\* once.
C18_EveryHookThenOriginal ==
    (/\ last.op = "dispatch"
     /\ last.args[1] \in Hwnds
     /\ Len(wndproc[last.args[1]]) >= 1)
    => /\ HooksRun(last.trace) =
             Reversed([i \in DOMAIN wndproc[last.args[1]] |->
                          wndproc[last.args[1]][i].hook])
       /\ Count(last.trace, "original") = 1

\* C19: a device get_device returns is of the variant its class argument
\* names, and a notification of a connected mouse, keyboard or HID is
\* delivered as an event that references a Mouse, a Keyboard or an HID, also
\* after list_devices calls and after the OS gave a handle to a device of
\* another class.
VariantOf(dwType) ==
    CASE dwType = 0 -> "Mouse" [] dwType = 1 -> "Keyboard" [] dwType = 2 -> "HID"
      [] OTHER -> "none"
====
